---------------------------- MODULE Spec2Model ----------------------------
(***************************************************************************)
(* User registration: POST /api/1.0/users (UserRouter), UserService.save,  *)
(* the User table and the activation e-mail sink.                          *)
(*                                                                         *)
(* Strings are sequences of one-character strings.  The characters that    *)
(* the validators tell apart are kept apart: "U" an uppercase letter, "l"  *)
(* a lowercase letter, "d" a digit, "a" and "b" two distinct letters, "@"  *)
(* and ".".  A field of the JSON body is a record [null, s]: null or the   *)
(* string s.                                                               *)
(***************************************************************************)
EXTENDS Integers, Sequences, FiniteSets, TLC

VARIABLES
    users,      \* the User table: sequence of rows in insertion order
    reqs,       \* the requests received so far, each with its handler's position
    outbox      \* the activation messages handed to the e-mail transport

vars == <<users, reqs, outbox>>

-----------------------------------------------------------------------------
(* Bounds of the model *)

MaxReqs == 2          \* requests received in one behaviour of Spec
MaxPwLen == 6         \* longest password drawn in SpecV
MaxEmailLen == 6      \* longest e-mail drawn in SpecV

(* Program constants *)

UsernameMin == 4
UsernameMax == 32
PasswordMin == 6
TokenLength == 16

-----------------------------------------------------------------------------
(* Field values *)

NullVal == [null |-> TRUE, s |-> <<>>]
Str(s) == [null |-> FALSE, s |-> s]

Rep(c, n) == [i \in 1..n |-> c]

\* express-validator turns the field into a string before any validator runs:
\* null and undefined become ''.
FieldToString(v) == IF v.null THEN <<>> ELSE v.s

-----------------------------------------------------------------------------
(* The validators of validator.js that the chains use *)

IsEmpty(s) == Len(s) = 0

\* isLength({min, max}); max = -1 stands for "no max"
IsLength(s, min, max) == Len(s) >= min /\ (max = -1 \/ Len(s) <= max)

RECURSIVE Split(_, _)
\* s.split(c)
Split(s, c) ==
    IF \A i \in 1..Len(s) : s[i] # c
    THEN <<s>>
    ELSE LET i == CHOOSE k \in 1..Len(s) :
                     s[k] = c /\ \A j \in 1..(k - 1) : s[j] # c
         IN <<SubSeq(s, 1, i - 1)>> \o Split(SubSeq(s, i + 1, Len(s)), c)

RECURSIVE Join(_, _)
\* parts.join(c)
Join(parts, c) ==
    IF Len(parts) = 0 THEN <<>>
    ELSE IF Len(parts) = 1 THEN parts[1]
    ELSE parts[1] \o <<c>> \o Join(Tail(parts), c)

IsLetter(c) == c \in {"a", "b", "U", "l"}
IsAtomChar(c) == c \in {"a", "b", "U", "l", "d"}

\* isFQDN(domain) with require_tld: at least two labels, every label non-empty
\* and made of label characters, the last one of two letters or more.
IsFQDN(domain) ==
    LET parts == Split(domain, ".")
        tld == parts[Len(parts)]
    IN /\ Len(parts) >= 2
       /\ Len(tld) >= 2
       /\ \A i \in 1..Len(tld) : IsLetter(tld[i])
       /\ \A p \in 1..Len(parts) :
              /\ Len(parts[p]) > 0
              /\ \A i \in 1..Len(parts[p]) : IsAtomChar(parts[p][i])

\* isEmail(str): domain is what follows the last '@', user what precedes it;
\* the user part is a dot-separated list of non-empty atoms.
IsEmail(str) ==
    LET parts == Split(str, "@")
        domain == parts[Len(parts)]
        user == Join(SubSeq(parts, 1, Len(parts) - 1), "@")
        userParts == Split(user, ".")
    IN /\ IsFQDN(domain)
       /\ \A p \in 1..Len(userParts) :
              /\ Len(userParts[p]) > 0
              /\ \A i \in 1..Len(userParts[p]) : IsAtomChar(userParts[p][i])

\* matches(/^(?=.*[A-Z])(?=.*[a-z])(?=.*\d).*$/)
MatchesPasswordPattern(s) ==
    /\ \E i \in 1..Len(s) : s[i] = "U"
    /\ \E i \in 1..Len(s) : s[i] \in {"l", "a", "b"}
    /\ \E i \in 1..Len(s) : s[i] = "d"


-----------------------------------------------------------------------------
(* The validation chains of router.post *)

Rule(validator, msg) == [kind |-> "rule", validator |-> validator, msg |-> msg]
Bail == [kind |-> "bail", validator |-> "", msg |-> ""]

UsernameChain ==
    << Rule("notEmpty", "Username cannot be null"),
       Bail,
       Rule("isLengthUsername", "Must have minimum 4 and maximum 32 characters") >>

EmailChain ==
    << Rule("notEmpty", "E-mail cannot be null"),
       Bail,
       Rule("isEmail", "E-mail is not valid") >>

\* the password chain without its second bail()
PasswordChain_NoSecondBail ==
    << Rule("notEmpty", "Password cannot be null"),
       Bail,
       Rule("isLengthPassword", "Password must be at least 6 characters long"),
       Rule("matches",
            "Password must have at least one uppercase, one lowercase and one number") >>

PasswordChain ==
    << Rule("notEmpty", "Password cannot be null"),
       Bail,
       Rule("isLengthPassword", "Password must be at least 6 characters long"),
       Bail,
       Rule("matches",
            "Password must have at least one uppercase, one lowercase and one number") >>

\* whether the validator named in a chain item accepts the string
Passes(validator, s) ==
    CASE validator = "notEmpty" -> ~IsEmpty(s)
      [] validator = "isLengthUsername" -> IsLength(s, UsernameMin, UsernameMax)
      [] validator = "isEmail" -> IsEmail(s)
      [] validator = "isLengthPassword" -> IsLength(s, PasswordMin, -1)
      [] validator = "matches" -> MatchesPasswordPattern(s)

RECURSIVE RunChain(_, _, _, _)
\* One chain run on one field: every failing validator adds an error with its
\* message; bail() stops the chain once the field has an error.
RunChain(path, chain, s, errs) ==
    IF chain = <<>> THEN errs
    ELSE LET item == Head(chain) IN
         IF item.kind = "bail"
         THEN IF errs # <<>> THEN errs
              ELSE RunChain(path, Tail(chain), s, errs)
         ELSE RunChain(path, Tail(chain), s,
                       IF Passes(item.validator, s) THEN errs
                       ELSE Append(errs, [path |-> path, msg |-> item.msg]))

\* a validation that stops at the first field with an error
ValidationErrors_FailFast(body) ==
    LET u == RunChain("username", UsernameChain, FieldToString(body.username), <<>>)
        e == RunChain("email", EmailChain, FieldToString(body.email), <<>>)
        p == RunChain("password", PasswordChain, FieldToString(body.password), <<>>)
    IN IF u # <<>> THEN u ELSE IF e # <<>> THEN e ELSE p

\* validationResult(req).array(): the errors of the chains, in the order the
\* chains are given to router.post
ValidationErrors(body) ==
    RunChain("username", UsernameChain, FieldToString(body.username), <<>>)
    \o RunChain("email", EmailChain, FieldToString(body.email), <<>>)
    \o RunChain("password", PasswordChain, FieldToString(body.password), <<>>)

\* obj[key] = val on an object kept as its list of (key, val) in key order: an
\* existing key keeps its place, a new key goes last
SetKey(obj, key, val) ==
    IF \E i \in 1..Len(obj) : obj[i].key = key
    THEN [i \in 1..Len(obj) |->
             IF obj[i].key = key THEN [key |-> key, val |-> val] ELSE obj[i]]
    ELSE Append(obj, [key |-> key, val |-> val])

RECURSIVE DiscoveredErrors(_, _)
\* errors.array().forEach((error) => (discoveredErrors[error.path] = error.msg))
DiscoveredErrors(errors, obj) ==
    IF errors = <<>> THEN obj
    ELSE DiscoveredErrors(Tail(errors),
                          SetKey(obj, Head(errors).path, Head(errors).msg))

Keys(obj) == [i \in 1..Len(obj) |-> obj[i].key]
HasKey(obj, key) == \E i \in 1..Len(obj) : obj[i].key = key
Get(obj, key) == obj[CHOOSE i \in 1..Len(obj) : obj[i].key = key].val


-----------------------------------------------------------------------------
(* UserService.save: its helpers *)

\* crypto.randomBytes(length): the random source; a byte is written as its two
\* hexadecimal digits
RandomBytes(length) == {Rep(b, length) : b \in {<<"0", "f">>, <<"f", "0">>}}

RECURSIVE ToHex(_)
\* bytes.toString('hex'): two characters for each byte
ToHex(bytes) ==
    IF bytes = <<>> THEN <<>> ELSE Head(bytes) \o ToHex(Tail(bytes))

\* str.substring(0, length)
Substring0(str, length) ==
    SubSeq(str, 1, IF Len(str) < length THEN Len(str) ELSE length)

\* generateToken(length), for one outcome of the random source
GenerateToken(length, bytes) == Substring0(ToHex(bytes), length)

\* bcrypt.hash(password, 10): "$2b$10$", the salt, and the digest of salt and
\* password, which is kept symbolic ("#" followed by what was hashed).  The
\* salt bcrypt draws is read by nothing but the stored digest; one value of it
\* is followed.
BcryptSalts == {"x"}
BcryptHash(password, salt) ==
    <<"$", "2", "b", "$", "1", "0", "$", salt, "#">> \o password

\* a user object that takes the password of the body as it is
BuildUser_PlainPassword(body, hash, token) ==
    [ username |-> body.username.s,
      email |-> body.email.s,
      password |-> body.password.s,
      activationToken |-> token ]

\* the user object that save builds
BuildUser(body, hash, token) ==
    [ username |-> body.username.s,
      email |-> body.email.s,
      password |-> hash,
      activationToken |-> token ]

NoUser == [username |-> <<>>, email |-> <<>>, password |-> <<>>,
           activationToken |-> <<>>]

-----------------------------------------------------------------------------
(* The User table.  The model of the table is not among the sources; the    *)
(* registration tests create a row with User.create and then expect a POST  *)
(* with the same e-mail to be answered 'E-mail in use', which the handler   *)
(* only does when save throws: e-mail is a unique column.                   *)

\* User.findOne({ where: { email } }) finds a row
EmailTaken(table, email) == \E i \in 1..Len(table) : table[i].email = email

\* User.create on a table whose e-mail column has no unique index
UserCreate_NoUniqueIndex(table, user, by) ==
    [ok |-> TRUE,
     table |-> Append(table,
                      [ id |-> Len(table) + 1,
                        username |-> user.username,
                        email |-> user.email,
                        password |-> user.password,
                        activationToken |-> user.activationToken,
                        by |-> by ])]

\* User.create(user) on the table: the new table, or a unique-constraint error.
\* `by` is history: the request whose save created the row.
UserCreate(table, user, by) ==
    IF EmailTaken(table, user.email)
    THEN [ok |-> FALSE, table |-> table]
    ELSE [ok |-> TRUE,
          table |-> Append(table,
                           [ id |-> Len(table) + 1,
                             username |-> user.username,
                             email |-> user.email,
                             password |-> user.password,
                             activationToken |-> user.activationToken,
                             by |-> by ])]

-----------------------------------------------------------------------------
(* Responses *)

NoResponse == [status |-> 0, message |-> "", validationErrors |-> <<>>]

\* res.status(400).send({ validationErrors: errs })
BadRequest(errs) == [status |-> 400, message |-> "", validationErrors |-> errs]

\* res.send({ message: 'User created' })
Created == [status |-> 200, message |-> "User created", validationErrors |-> <<>>]

\* the catch block of the handler
EmailInUse == BadRequest(<<[key |-> "email", val |-> "E-mail in use"]>>)


-----------------------------------------------------------------------------
(* Requests *)

Langs == {"", "es", "fr"}      \* Accept-Language: absent, Spanish, unrecognized
SampleLangs == {"", "es"}      \* those of the requests of Spec

Body(u, e, p) == [username |-> u, email |-> e, password |-> p]

ValidUsername == Str(<<"l", "l", "l", "d">>)
EmailA == Str(<<"a", "@", "a", ".", "a", "a">>)
EmailB == Str(<<"b", "@", "a", ".", "a", "a">>)
ValidPassword == Str(<<"l", "l", "l", "U", "d", "d">>)

\* the bodies posted in Spec: two valid users with different e-mails, one
\* with a null username and one with a null username and e-mail
SampleBodies ==
    { Body(ValidUsername, EmailA, ValidPassword),
      Body(ValidUsername, EmailB, ValidPassword),
      Body(NullVal, EmailA, ValidPassword),
      Body(NullVal, NullVal, ValidPassword) }

\* a request as it arrives
NewRequest(body, lang) ==
    [ body |-> body,
      lang |-> lang,
      pc |-> "received",
      user |-> NoUser,          \* the user object of save
      err |-> "",               \* history: what save threw
      resp |-> NoResponse,
      responses |-> 0,          \* history: responses sent for the request
      held |-> ~body.email.null /\ EmailTaken(users, body.email.s) ]
                                \* history: e-mail held by a row on arrival

At(r, pc) == r \in 1..Len(reqs) /\ reqs[r].pc = pc

\* res.send / res.status(..).send: the request is answered and save's frame
\* is gone
Respond(req, resp) ==
    [req EXCEPT !.pc = "done", !.resp = resp, !.responses = @ + 1,
                !.user = NoUser]

\* the handler up to its first await: the validation result answers the
\* request, or save is called and waits for bcrypt
Handle(req) ==
    LET errors == ValidationErrors(req.body) IN
    IF errors # <<>>
    THEN Respond(req, BadRequest(DiscoveredErrors(errors, <<>>)))
    ELSE [req EXCEPT !.pc = "hashing"]

\* the handler after save returned: res.send({ message: 'User created' })
HandlerSuccess(req) == Respond(req, Created)

\* a catch block that hands the error on to the error middleware (500)
HandlerCatch_Rethrow(req, err) ==
    [Respond(req, [status |-> 500, message |-> "", validationErrors |-> <<>>])
        EXCEPT !.err = err]

\* the handler's catch block, entered with whatever save threw: the error is
\* not looked at
HandlerCatch(req, err) ==
    [Respond(req, EmailInUse) EXCEPT !.err = err]

-----------------------------------------------------------------------------
(* Actions.  A step is what Node runs to completion: from the event that    *)
(* starts it (a request, a promise settled) to the next await or to the     *)
(* response.                                                                *)

Init ==
    /\ users = <<>>
    /\ reqs = <<>>
    /\ outbox = <<>>

\* POST /api/1.0/users: the chains validate the body and the handler runs to
\* its response or to the await of bcrypt.hash in save
Post(body, lang) ==
    /\ Len(reqs) < MaxReqs
    /\ reqs' = Append(reqs, Handle(NewRequest(body, lang)))
    /\ UNCHANGED <<users, outbox>>

\* a save that builds the user object and goes on without User.create
SaveCreate_NoCreate(r, salt, bytes) ==
    /\ At(r, "hashing")
    /\ reqs' = [reqs EXCEPT
          ![r].pc = "created",
          ![r].user = BuildUser(reqs[r].body,
                                BcryptHash(reqs[r].body.password.s, salt),
                                GenerateToken(TokenLength, bytes))]
    /\ UNCHANGED <<users, outbox>>

\* save after bcrypt.hash: the user object is built and User.create is called
SaveCreate(r, salt, bytes) ==
    /\ At(r, "hashing")
    /\ reqs' = [reqs EXCEPT
          ![r].pc = "creating",
          ![r].user = BuildUser(reqs[r].body,
                                BcryptHash(reqs[r].body.password.s, salt),
                                GenerateToken(TokenLength, bytes))]
    /\ UNCHANGED <<users, outbox>>

\* the store inserts the row
StoreCommit(r) ==
    /\ At(r, "creating")
    /\ LET out == UserCreate(users, reqs[r].user, r) IN
       /\ out.ok
       /\ users' = out.table
    /\ reqs' = [reqs EXCEPT ![r].pc = "created"]
    /\ UNCHANGED outbox

\* the store rejects the row, the e-mail being held by another row: User.create
\* throws, save throws, the handler catches
StoreReject(r) ==
    /\ At(r, "creating")
    /\ ~UserCreate(users, reqs[r].user, r).ok
    /\ reqs' = [reqs EXCEPT
          ![r] = HandlerCatch(reqs[r], "SequelizeUniqueConstraintError")]
    /\ UNCHANGED <<users, outbox>>

\* the store fails for another reason (connection lost, disk full, ...):
\* User.create throws, save throws, the handler catches
StoreFail(r) ==
    /\ At(r, "creating")
    /\ reqs' = [reqs EXCEPT
          ![r] = HandlerCatch(reqs[r], "SequelizeConnectionError")]
    /\ UNCHANGED <<users, outbox>>

\* save after User.create: the activation message is handed to the transport
SaveSend(r) ==
    /\ At(r, "created")
    /\ outbox' = Append(outbox, [ to |-> reqs[r].user.email,
                                  token |-> reqs[r].user.activationToken,
                                  by |-> r ])
    /\ reqs' = [reqs EXCEPT ![r].pc = "sending"]
    /\ UNCHANGED users

\* the transport reports the message sent: save returns, the handler answers
MailSent(r) ==
    /\ At(r, "sending")
    /\ reqs' = [reqs EXCEPT ![r] = HandlerSuccess(reqs[r])]
    /\ UNCHANGED <<users, outbox>>

\* the transport reports a failure: sendAccountActivation throws, save
\* throws, the handler catches
MailFailed(r) ==
    /\ At(r, "sending")
    /\ reqs' = [reqs EXCEPT ![r] = HandlerCatch(reqs[r], "MailError")]
    /\ UNCHANGED <<users, outbox>>

\* the steps of save
Save(r) ==
    \/ \E salt \in BcryptSalts, bytes \in RandomBytes(TokenLength) :
           SaveCreate(r, salt, bytes)
    \/ SaveSend(r)

\* the answers of the store
Store(r) ==
    \/ StoreCommit(r)
    \/ StoreReject(r)
    \/ StoreFail(r)

\* the answers of the e-mail transport
Transport(r) ==
    \/ MailSent(r)
    \/ MailFailed(r)

Next ==
    \/ \E body \in SampleBodies, lang \in SampleLangs : Post(body, lang)
    \/ \E r \in 1..MaxReqs : Save(r) \/ Store(r) \/ Transport(r)

Spec == Init /\ [][Next]_vars

-----------------------------------------------------------------------------
(* SpecV: one request, its body drawn from wide sets: every username length *)
(* from 0 to one more than the maximum, every e-mail and every password up  *)
(* to a length, each combined with a few values of the other two fields.    *)

EmailChars == {"a", "@", "."}
PasswordChars == {"U", "l", "d"}

SampleUsernames == {NullVal, ValidUsername, Str(<<"l", "l", "l">>)}
SampleEmails == {NullVal, EmailA, Str(<<"a", "@", "a">>)}
SamplePasswords ==
    {NullVal, ValidPassword, Str(<<"U", "l", "l", "l", "l">>), Str(Rep("l", 6))}

\* the sampled bodies with every value of Accept-Language, the wide ones
\* without the header
PostV ==
    /\ reqs = <<>>
    /\ \/ \E u \in SampleUsernames, e \in SampleEmails, p \in SamplePasswords,
             lang \in Langs :
              Post(Body(u, e, p), lang)
       \/ \E n \in 0..(UsernameMax + 1), e \in SampleEmails, p \in SamplePasswords :
              Post(Body(Str(Rep("l", n)), e, p), "")
       \/ \E k \in 0..MaxEmailLen : \E s \in [1..k -> EmailChars] :
              \E u \in SampleUsernames, p \in SamplePasswords :
                  Post(Body(u, Str(s), p), "")
       \/ \E k \in 0..MaxPwLen : \E s \in [1..k -> PasswordChars] :
              \E u \in SampleUsernames, e \in SampleEmails :
                  Post(Body(u, e, Str(s)), "")

\* the table is empty, or holds the row of a user registered before with the
\* e-mail EmailA (request 0)
InitV ==
    /\ users \in
         { <<>>,
           UserCreate(<<>>,
                      BuildUser(Body(ValidUsername, EmailA, ValidPassword),
                                BcryptHash(ValidPassword.s, "x"),
                                GenerateToken(TokenLength,
                                              Rep(<<"0", "f">>, TokenLength))),
                      0).table }
    /\ reqs = <<>>
    /\ outbox = <<>>

NextV == PostV \/ Save(1) \/ Store(1) \/ Transport(1)

SpecV == InitV /\ [][NextV]_vars

-----------------------------------------------------------------------------
(* FairSpec: save's own steps and the store's answers are taken when they   *)
(* can be; the e-mail transport is a remote party and nothing makes it      *)
(* answer, and no client has to post.                                       *)

FairSpec ==
    /\ Spec
    /\ \A r \in 1..MaxReqs : WF_vars(Save(r) \/ Store(r))

-----------------------------------------------------------------------------
(* What the claims speak of *)

Done(r) == At(r, "done")
RowsBy(r) == {i \in 1..Len(users) : users[i].by = r}
DispatchesBy(r) == {i \in 1..Len(outbox) : outbox[i].by = r}
Valid(body) == ValidationErrors(body) = <<>>
InUseMessage == "E-mail in use"

-----------------------------------------------------------------------------
C2_DuplicateEmailAnswered400 ==
    \A r \in 1..Len(reqs) :
        (Done(r) /\ Valid(reqs[r].body) /\ reqs[r].held) =>
            /\ reqs[r].resp.status = 400
            /\ HasKey(reqs[r].resp.validationErrors, "email")
            /\ Get(reqs[r].resp.validationErrors, "email") = InUseMessage
            /\ RowsBy(r) = {}

\* A valid request that arrived with its e-mail already held has been
\* answered, the store having refused its row.
C2_Witness ==
    \E r \in 1..Len(reqs) :
        /\ Done(r) /\ Valid(reqs[r].body) /\ reqs[r].held
        /\ reqs[r].err = "SequelizeUniqueConstraintError"
        /\ Len(users) = 1

\* C3: a request answered 200 with the success message created exactly one
\* row, with the submitted username and e-mail, and had exactly one activation
\* message dispatched for it, after the row was persisted; no request creates
\* more than one row or has more than one message dispatched.
C3_SuccessOneRowOneDispatch ==
    \A r \in 1..Len(reqs) :
        /\ Cardinality(RowsBy(r)) <= 1
        /\ Cardinality(DispatchesBy(r)) <= 1
        /\ DispatchesBy(r) # {} => RowsBy(r) # {}
        /\ (Done(r) /\ reqs[r].resp.status = 200) =>
               /\ reqs[r].resp.message = "User created"
               /\ Cardinality(DispatchesBy(r)) = 1
               /\ \E i \in 1..Len(users) :
                      /\ RowsBy(r) = {i}
                      /\ users[i].username = reqs[r].body.username.s
                      /\ users[i].email = reqs[r].body.email.s

\* Two requests have been answered 200, each with its own row and message.
C3_Witness ==
    /\ Len(reqs) >= 2
    /\ \A r \in 1..2 :
           /\ Done(r) /\ reqs[r].resp.status = 200
           /\ RowsBy(r) # {} /\ DispatchesBy(r) # {}

\* C4: a failure of User.create that is not a duplicate e-mail is answered
\* with a 5xx status, never with 400 and validationErrors.email 'E-mail in use'.
C4_StoreFaultIsServerFault ==
    \A r \in 1..Len(reqs) :
        (Done(r) /\ reqs[r].err = "SequelizeConnectionError") =>
            /\ reqs[r].resp.status >= 500
            /\ ~HasKey(reqs[r].resp.validationErrors, "email")

\* C5: when the dispatch of the activation message fails after the row of the
\* request was persisted, the request is answered either with success, the row
\* kept, or with a failure, the row removed; never with a failure while the
\* row remains.
C5_MailFailureKeepsOrRollsBack ==
    \A r \in 1..Len(reqs) :
        (Done(r) /\ reqs[r].err = "MailError") =>
            \/ reqs[r].resp.status = 200 /\ RowsBy(r) # {}
            \/ reqs[r].resp.status # 200 /\ RowsBy(r) = {}

-----------------------------------------------------------------------------
(* The validation rules as the specification words them, field by field,    *)
(* written without the validators of the chains.                            *)

Fields == <<"username", "email", "password">>

Count(s, c) == Cardinality({i \in 1..Len(s) : s[i] = c})

\* local@domain: one '@', dots only between non-empty parts, a domain of two
\* labels or more whose last label has two characters or more
WellFormedEmail(s) ==
    /\ Count(s, "@") = 1
    /\ LET at == CHOOSE i \in 1..Len(s) : s[i] = "@" IN
       /\ at > 1 /\ at < Len(s)
       /\ s[1] # "." /\ s[at - 1] # "." /\ s[at + 1] # "." /\ s[Len(s)] # "."
       /\ \A i \in 1..(Len(s) - 1) : ~(s[i] = "." /\ s[i + 1] = ".")
       /\ \E i \in (at + 1)..Len(s) : s[i] = "."
       /\ s[Len(s) - 1] # "."

\* the message a field is to carry: "" when it passes
ExpectedMessage(field, v) ==
    CASE field = "username" ->
            IF v.null \/ v.s = <<>> THEN "Username cannot be null"
            ELSE IF Len(v.s) < 4 \/ Len(v.s) > 32
                 THEN "Must have minimum 4 and maximum 32 characters"
            ELSE ""
      [] field = "email" ->
            IF v.null \/ v.s = <<>> THEN "E-mail cannot be null"
            ELSE IF ~WellFormedEmail(v.s) THEN "E-mail is not valid"
            ELSE ""
      [] field = "password" ->
            IF v.null \/ v.s = <<>> THEN "Password cannot be null"
            ELSE IF Len(v.s) < 6
                 THEN "Password must be at least 6 characters long"
            ELSE IF Count(v.s, "U") = 0 \/ Count(v.s, "l") = 0 \/ Count(v.s, "d") = 0
                 THEN "Password must have at least one uppercase, one lowercase and one number"
            ELSE ""

Fails(field, body) == ExpectedMessage(field, body[field]) # ""
AnyFails(body) == \E i \in 1..3 : Fails(Fields[i], body)

RECURSIVE FailingFields(_, _)
\* the failing fields among Fields[i..3], in that order
FailingFields(body, i) ==
    IF i > 3 THEN <<>>
    ELSE (IF Fails(Fields[i], body) THEN <<Fields[i]>> ELSE <<>>)
         \o FailingFields(body, i + 1)

C7_FirstFailingRuleWins ==
    \A r \in 1..Len(reqs) :
        /\ \A f \in {"username", "email", "password"} :
               Cardinality({i \in 1..Len(ValidationErrors(reqs[r].body)) :
                               ValidationErrors(reqs[r].body)[i].path = f}) <= 1
        /\ (Done(r) /\ AnyFails(reqs[r].body)) =>
               \A f \in {"username", "email", "password"} :
                   LET errs == reqs[r].resp.validationErrors
                       msg == ExpectedMessage(f, reqs[r].body[f])
                   IN IF msg = "" THEN ~HasKey(errs, f)
                      ELSE HasKey(errs, f) /\ Get(errs, f) = msg
        /\ (Done(r) /\ ~reqs[r].body.username.null
                    /\ Len(reqs[r].body.username.s) \in {4, 32}) =>
               ~HasKey(reqs[r].resp.validationErrors, "username")
        /\ (Done(r) /\ ~reqs[r].body.username.null
                    /\ Len(reqs[r].body.username.s) \in {3, 33}) =>
               /\ HasKey(reqs[r].resp.validationErrors, "username")
               /\ Get(reqs[r].resp.validationErrors, "username")
                     = "Must have minimum 4 and maximum 32 characters"

\* A password of five characters with no digit has been answered with the
\* size message.
C7_Witness ==
    \E r \in 1..Len(reqs) :
        /\ Done(r)
        /\ ~reqs[r].body.password.null
        /\ Len(reqs[r].body.password.s) = 5
        /\ Count(reqs[r].body.password.s, "d") = 0
        /\ HasKey(reqs[r].resp.validationErrors, "password")
        /\ Get(reqs[r].resp.validationErrors, "password")
              = "Password must be at least 6 characters long"

-----------------------------------------------------------------------------
\* C8: a request with a null username and an otherwise valid e-mail that a
\* row already holds is answered 400 with errors for both fields: the keys of
\* validationErrors are username, email, in that order.
C8_NullUsernameAndEmailInUse ==
    \A r \in 1..Len(reqs) :
        (/\ Done(r)
         /\ reqs[r].body.username.null
         /\ ~Fails("email", reqs[r].body)
         /\ reqs[r].held) =>
            /\ reqs[r].resp.status = 400
            /\ Keys(reqs[r].resp.validationErrors) = <<"username", "email">>

-----------------------------------------------------------------------------
(* The messages the registration tests expect, by key and locale *)

MessageKeys ==
    { "username_null", "username_size", "email_null", "email_invalid",
      "email_in_use", "password_null", "password_size", "password_pattern",
      "user_create_success" }

\* the texts of the default locale
English(key) ==
    CASE key = "username_null" -> "Username cannot be null"
      [] key = "username_size" -> "Must have minimum 4 and maximum 32 characters"
      [] key = "email_null" -> "E-mail cannot be null"
      [] key = "email_invalid" -> "E-mail is not valid"
      [] key = "email_in_use" -> "E-mail in use"
      [] key = "password_null" -> "Password cannot be null"
      [] key = "password_size" -> "Password must be at least 6 characters long"
      [] key = "password_pattern" ->
            "Password must have at least one uppercase, one lowercase and one number"
      [] key = "user_create_success" -> "User created"

\* the texts of Accept-Language: es
Spanish(key) ==
    CASE key = "username_null" -> "Nombre de usuario no puede ser nulo"
      [] key = "username_size" ->
            "Nombre de usuario tiene que tener mínimo 4 y máximo 32 caracteres"
      [] key = "email_null" -> "E-mail no puede ser nulo"
      [] key = "email_invalid" -> "E-mail inválido"
      [] key = "email_in_use" -> "E-mail ya existe"
      [] key = "password_null" -> "Contraseña no puede ser nula"
      [] key = "password_size" ->
            "Contraseña tiene que tener por lo menos 6 caracteres"
      [] key = "password_pattern" ->
            "Contraseña tiene que tener por lo menos una mayúscula, una minúscula y un número"
      [] key = "user_create_success" -> "Usuario creado"

\* the text of a key in the locale of the request: an unrecognized locale gets
\* the default one
Localized(key, lang) == IF lang = "es" THEN Spanish(key) ELSE English(key)

TextsOf(lang) == {Localized(k, lang) : k \in MessageKeys}

\* C9: the Accept-Language header changes neither the status nor the fields
\* that fail, and every message returned (validation messages, the
\* e-mail-in-use message, the success message) is the text of the locale asked
\* for, an unrecognized locale getting the default text.
C9_MessagesInRequestedLocale ==
    \A r \in 1..Len(reqs) :
        Done(r) =>
            /\ reqs[r].resp.status = 200 =>
                   reqs[r].resp.message = Localized("user_create_success", reqs[r].lang)
            /\ \A i \in 1..Len(reqs[r].resp.validationErrors) :
                   reqs[r].resp.validationErrors[i].val \in TextsOf(reqs[r].lang)
            /\ AnyFails(reqs[r].body) =>
                   Keys(reqs[r].resp.validationErrors) = FailingFields(reqs[r].body, 1)

-----------------------------------------------------------------------------
\* C10: every registration request eventually gets exactly one response,
\* whatever validation, User.create and the dispatch of the activation message
\* do (the transport giving no answer included): the handler is never blocked
\* for ever.
C10_EveryRequestAnswered ==
    \A r \in 1..MaxReqs :
        (r <= Len(reqs)) ~> (Done(r) /\ reqs[r].responses = 1)

-----------------------------------------------------------------------------
\* the first characters of a bcrypt digest of cost 10
DigestPrefix == <<"$", "2", "b", "$", "1", "0", "$">>

\* C11: in every reachable state, no row of the User table has as password
\* the plaintext password of the request that created it: the row holds a
\* bcrypt digest, never the password of the body.
C11_NoPlaintextPassword ==
    \A i \in 1..Len(users) :
        users[i].by \in 1..Len(reqs) =>
            /\ users[i].password # reqs[users[i].by].body.password.s
            /\ Len(users[i].password) > Len(DigestPrefix)
            /\ SubSeq(users[i].password, 1, Len(DigestPrefix)) = DigestPrefix

\* A request with a password other than the sampled valid one has its row in
\* the table and has been answered 200.
C11_Witness ==
    \E i \in 1..Len(users) :
        /\ users[i].by \in 1..Len(reqs)
        /\ reqs[users[i].by].body.password # ValidPassword
        /\ Done(users[i].by)
        /\ reqs[users[i].by].resp.status = 200

=============================================================================
